---------------------------- MODULE Spec2Model ----------------------------
(***************************************************************************)
(* Adaptive hybrid ranking backend: the retrieval adapter, the scorer and  *)
(* the three pipeline entry points of backend/pipeline.py, as a state      *)
(* machine of one request at a time.                                       *)
(*                                                                         *)
(* Numbers are integers in tenths (Unit = 1.0); normalized signals and     *)
(* hybrid scores are integers in millionths (Micro = 1.0), the precision   *)
(* the scorer rounds its output to.                                        *)
(***************************************************************************)
EXTENDS Integers, Sequences, FiniteSets, TLC

VARIABLES
    pc,            \* position of the running entry point
    mode,          \* the entry point running: "recommend" | "ask" | "evaluate"
    req,           \* the request object (request_id, query, intent, top_k)
    request_id,    \* local request_id of the entry point
    raw,           \* local: what semantic_retrieve returned or raised
    metadata_list, \* local: records component of the adapter's output
    sim_scores,    \* local: scores component of the adapter's output
    rank_out,      \* local: what score_documents returned
    explain_out,   \* what explain_top_result returned or raised (ask)
    explanation,   \* local (ask): the explanation, or str(e)
    results,       \* local: materialized records (ask: the one top_doc)
    timing,        \* locals retrieval_ms, ranking_ms, compose_ms
    calls,         \* the collaborators invoked for this request, in order
    resp,          \* the returned envelope, or NoResponse
    peer           \* the locals of a second call, in flight on another thread

vars == <<pc, mode, req, request_id, raw, metadata_list, sim_scores, rank_out,
          explain_out, explanation, results, timing, calls, resp, peer>>

----------------------------------------------------------------------------
(* Bounds of the model *)

\* longest records list / scores list the retriever returns
MaxLen == 2
\* how many calls of score_documents one behaviour of ScorerSpec makes
MaxCalls == 3

----------------------------------------------------------------------------
(* Python values *)

Unit == 10
Micro == 1000000

\* A scalar: None, a number (in tenths) or a string.
NoneV == [t |-> "none", n |-> 0, s |-> ""]
Num(x) == [t |-> "num", n |-> x, s |-> ""]
Str(x) == [t |-> "str", n |-> 0, s |-> x]

\* Python truthiness of a scalar (what `x or y` and `if x` test).
Truthy(v) ==
    CASE v.t = "none" -> FALSE
      [] v.t = "num"  -> v.n # 0
      [] OTHER        -> v.s # ""

PyOr(a, b) == IF Truthy(a) THEN a ELSE b

\* The keys the ranker and the composer look up in a candidate record, in the
\* order the records of the dataset carry them.
KeyOrder ==
    <<"id", "doc_id", "api_id", "name", "description", "summary",
      "doc_quality", "quality", "score", "rating", "stars",
      "popularity", "usage_count", "uses", "downloads", "forks",
      "last_updated", "updated_at", "modified", "last_modified", "updated">>

Keys == {KeyOrder[i] : i \in 1..Len(KeyOrder)}

NoFields == [k \in Keys |-> NoneV]

\* An object: a scalar, a dict (f: its value per key, None when the key is
\* absent), or a list/tuple of flat objects (items).
Obj(k, n, s, f, items) == [k |-> k, n |-> n, s |-> s, f |-> f, items |-> items]

ONone == Obj("none", 0, "", NoFields, <<>>)
ONum(x) == Obj("num", x, "", NoFields, <<>>)
OStr(x) == Obj("str", 0, x, NoFields, <<>>)
ODict(r) == Obj("dict", 0, "", [k \in Keys |-> IF k \in DOMAIN r THEN r[k] ELSE NoneV], <<>>)
OList(xs) == Obj("list", 0, "", NoFields, xs)
OTuple(xs) == Obj("tuple", 0, "", NoFields, xs)

EmptyDict == Obj("dict", 0, "", NoFields, <<>>)

\* The scalar an object is, for float() and `or`.
Scalar(o) ==
    CASE o.k = "num" -> Num(o.n)
      [] o.k = "str" -> Str(o.s)
      [] OTHER       -> NoneV

OfScalar(v) ==
    CASE v.t = "num" -> ONum(v.n)
      [] v.t = "str" -> OStr(v.s)
      [] OTHER       -> ONone

RECURSIVE SeqFilterKeys(_, _)
\* list(d) of a dict d: its keys, in order.
SeqFilterKeys(f, i) ==
    IF i > Len(KeyOrder) THEN <<>>
    ELSE (IF f[KeyOrder[i]].t # "none" THEN <<OStr(KeyOrder[i])>> ELSE <<>>)
         \o SeqFilterKeys(f, i + 1)

DictKeys(o) == SeqFilterKeys(o.f, 1)


----------------------------------------------------------------------------
(* backend/pipeline.py: the retrieval adapter *)

\* The characters of a string, as list(s) gives them.
Chars(s) == [i \in 1..Len(s) |-> OStr(SubSeq(s, i, i))]

\* Whether list(o) raises TypeError: o is not iterable.
NotIterable(o) == o.k = "num"

\* list(o) of an iterable o.
PyList(o) ==
    CASE o.k \in {"list", "tuple"} -> o.items
      [] o.k = "dict"              -> DictKeys(o)
      [] o.k = "str"               -> Chars(o.s)
      [] OTHER                     -> <<>>

\* One slot of a two-element raw value, lines 64-72: None becomes [], a list
\* is kept, anything else goes through list().
SlotRaises(o) == o.k \notin {"none", "list"} /\ NotIterable(o)

SlotList(o) ==
    CASE o.k = "none" -> <<>>
      [] o.k = "list" -> o.items
      [] OTHER        -> PyList(o)

Returned(records, scores) ==
    [raised |-> FALSE, exc |-> "", records |-> records, scores |-> scores]

Raised(msg) ==
    [raised |-> TRUE, exc |-> msg, records |-> <<>>, scores |-> <<>>]

\* _normalize_retriever_output(raw): the (metadata_list, sim_scores) pair, or
\* the exception it raises.
NormalizeRetrieverOutput(rawv) ==
    IF rawv.k = "none" THEN Returned(<<>>, <<>>)
    ELSE IF rawv.k \in {"tuple", "list"} /\ Len(rawv.items) = 2 THEN
        IF SlotRaises(rawv.items[1]) \/ SlotRaises(rawv.items[2])
        THEN Raised("object is not iterable")
        ELSE Returned(SlotList(rawv.items[1]), SlotList(rawv.items[2]))
    ELSE IF rawv.k = "list" THEN Returned(rawv.items, <<>>)
    ELSE Returned(<<>>, <<>>)

\* _ensure_request_id(req_id): the caller's id when truthy, else a new UUID.
\* An entry point that always generates its identifier.
EnsureRequestIdFresh(req_id, uuid) == uuid

EnsureRequestId(req_id, uuid) == IF Truthy(req_id) THEN req_id.s ELSE uuid

----------------------------------------------------------------------------
(* ranking/dynamic_ranker.py: the weight resolver *)

Signals == {"similarity", "doc_quality", "recency", "popularity"}

\* A profile table whose popular profile is the recommend profile.
IntentWeightsNoPopular(profile) ==
    CASE profile = "latest" ->
           [similarity |-> 20, doc_quality |-> 10, recency |-> 50, popularity |-> 10]
      [] profile = "reliable" ->
           [similarity |-> 30, doc_quality |-> 50, recency |-> 10, popularity |-> 10]
      [] OTHER ->
           [similarity |-> 40, doc_quality |-> 30, recency |-> 10, popularity |-> 20]

\* A profile table whose reliable profile is the recommend profile.
IntentWeightsFlat(profile) ==
    CASE profile = "latest" ->
           [similarity |-> 20, doc_quality |-> 10, recency |-> 50, popularity |-> 10]
      [] profile = "popular" ->
           [similarity |-> 25, doc_quality |-> 15, recency |-> 10, popularity |-> 50]
      [] OTHER ->
           [similarity |-> 40, doc_quality |-> 30, recency |-> 10, popularity |-> 20]

\* _INTENT_WEIGHTS, the raw profiles, in tenths.
IntentWeights(profile) ==
    CASE profile = "recommend" ->
           [similarity |-> 40, doc_quality |-> 30, recency |-> 10, popularity |-> 20]
      [] profile = "latest" ->
           [similarity |-> 20, doc_quality |-> 10, recency |-> 50, popularity |-> 10]
      [] profile = "popular" ->
           [similarity |-> 25, doc_quality |-> 15, recency |-> 10, popularity |-> 50]
      [] profile = "reliable" ->
           [similarity |-> 30, doc_quality |-> 50, recency |-> 10, popularity |-> 10]
      [] OTHER ->
           [similarity |-> 40, doc_quality |-> 30, recency |-> 10, popularity |-> 20]

ProfileNames == {"recommend", "latest", "popular", "reliable", "default"}

UpperCase == <<"A", "B", "C", "D", "E", "F", "G", "H", "I", "J", "K", "L", "M",
               "N", "O", "P", "Q", "R", "S", "T", "U", "V", "W", "X", "Y", "Z">>
LowerCase == <<"a", "b", "c", "d", "e", "f", "g", "h", "i", "j", "k", "l", "m",
               "n", "o", "p", "q", "r", "s", "t", "u", "v", "w", "x", "y", "z">>

LowerChar(c) ==
    IF \E i \in 1..Len(UpperCase) : UpperCase[i] = c
    THEN LowerCase[CHOOSE i \in 1..Len(UpperCase) : UpperCase[i] = c]
    ELSE c

RECURSIVE StrLower(_)
\* str.lower()
StrLower(s) ==
    IF Len(s) = 0 THEN ""
    ELSE LowerChar(SubSeq(s, 1, 1)) \o StrLower(SubSeq(s, 2, Len(s)))

RECURSIVE StrLStrip(_)
StrLStrip(s) ==
    IF Len(s) > 0 /\ SubSeq(s, 1, 1) = " " THEN StrLStrip(SubSeq(s, 2, Len(s))) ELSE s

RECURSIVE StrRStrip(_)
StrRStrip(s) ==
    IF Len(s) > 0 /\ SubSeq(s, Len(s), Len(s)) = " "
    THEN StrRStrip(SubSeq(s, 1, Len(s) - 1)) ELSE s

\* str.strip()
StrStrip(s) == StrRStrip(StrLStrip(s))

\* `sub in s` of two strings
StrContains(s, sub) ==
    \E i \in 1..(Len(s) - Len(sub) + 1) : SubSeq(s, i, i + Len(sub) - 1) = sub

\* Weights that are left as the table has them.
NormalizeWeightsRaw(w) == [k \in Signals |-> [num |-> w[k], den |-> Unit]]

\* _normalize_weights(raw_weights): each weight over the sum (1.0 when the
\* sum is zero), kept as the fraction num/den.
WeightSum(w) ==
    w.similarity + w.doc_quality + w.recency + w.popularity

NormalizeWeights(w) ==
    [k \in Signals |->
        [num |-> w[k], den |-> IF WeightSum(w) # 0 THEN WeightSum(w) ELSE Unit]]

\* A resolver that tries the popular rule before the latest rule.
ResolveProfilePopularFirst(intent) ==
    LET intent_l == StrLower(StrStrip(IF Truthy(intent) THEN intent.s ELSE "")) IN
    IF intent_l \in ProfileNames THEN intent_l
    ELSE IF StrContains(intent_l, "popular") \/ StrContains(intent_l, "trend") THEN "popular"
    ELSE IF StrContains(intent_l, "latest") THEN "latest"
    ELSE IF StrContains(intent_l, "reliab") \/ StrContains(intent_l, "quality")
            \/ StrContains(intent_l, "reliable") THEN "reliable"
    ELSE IF StrContains(intent_l, "recommend") \/ intent_l = "" THEN "recommend"
    ELSE "default"

\* The profile compute_dynamic_weights picks for an intent (a scalar).
ResolveProfile(intent) ==
    LET intent_l == StrLower(StrStrip(IF Truthy(intent) THEN intent.s ELSE "")) IN
    IF intent_l \in ProfileNames THEN intent_l
    ELSE IF StrContains(intent_l, "latest") THEN "latest"
    ELSE IF StrContains(intent_l, "popular") \/ StrContains(intent_l, "trend") THEN "popular"
    ELSE IF StrContains(intent_l, "reliab") \/ StrContains(intent_l, "quality")
            \/ StrContains(intent_l, "reliable") THEN "reliable"
    ELSE IF StrContains(intent_l, "recommend") \/ intent_l = "" THEN "recommend"
    ELSE "default"

\* compute_dynamic_weights(intent)
ComputeDynamicWeights(intent) == NormalizeWeights(IntentWeights(ResolveProfile(intent)))

----------------------------------------------------------------------------
(* ranking/dynamic_ranker.py: signal extraction and normalization *)

DocQualityCandidates == <<"doc_quality", "quality", "score", "rating", "stars">>
PopularityCandidates == <<"popularity", "usage_count", "uses", "downloads", "stars", "forks">>
RecencyCandidates == <<"last_updated", "updated_at", "modified", "last_modified", "updated">>

\* float("nan"): the value that is no number. It is kept as one value below
\* every number of the model; every operator on floats treats it apart.
NaN == -(1000 * Micro)

\* The string literals float() parses, with their value in tenths; float() of
\* any other string raises ValueError.
FloatLiterals == ("0.9" :> 9) @@ ("4.5" :> 45) @@ ("-0.5" :> -5) @@ ("nan" :> NaN)

\* The date strings strptime/fromisoformat parse, with their timestamp in
\* days; any other string gives 0.0.
DateLiterals ==
    ("2024-01-01" :> 19723) @@ ("2023-01-01" :> 19358) @@ ("01-01-2024" :> 19723)
    @@ ("2024-01-01T00:00:00" :> 19723)

\* float(v) of a scalar: ok and the value, or not ok (TypeError, ValueError).
ToFloat(v) ==
    CASE v.t = "num" -> [ok |-> TRUE, n |-> v.n]
      [] v.t = "str" /\ v.s \in DOMAIN FloatLiterals -> [ok |-> TRUE, n |-> FloatLiterals[v.s]]
      [] OTHER -> [ok |-> FALSE, n |-> 0]

RECURSIVE GetFrom(_, _, _)
GetFrom(f, candidates, i) ==
    IF i > Len(candidates) THEN NoneV
    ELSE IF f[candidates[i]].t # "none" THEN f[candidates[i]]
    ELSE GetFrom(f, candidates, i + 1)

\* _get_field_safe(item, candidates) of a dict: the first value that is not None.
GetFieldSafe(md, candidates) == GetFrom(md.f, candidates, 1)

\* _parse_date_to_epoch(d), in days
ParseDateToEpoch(d) ==
    CASE d.t = "none" -> 0
      [] d.t = "num"  -> d.n
      [] OTHER        -> IF StrStrip(d.s) \in DOMAIN DateLiterals
                         THEN DateLiterals[StrStrip(d.s)] ELSE 0

Min2(a, b) == IF a <= b THEN a ELSE b
Max2(a, b) == IF a >= b THEN a ELSE b
Abs(a) == IF a < 0 THEN -a ELSE a

\* The length of the quality heuristic's description at which it reaches its
\* cap of 5.0 (len / 200.0 = 5.0).
QualityCapLen == 1000

\* Raw quality of a record, lines 103-111, in 1/200ths: the explicit value, or
\* min(5.0, len(description) / 200.0) when there is none or it is not a number.
RawQuality(md) ==
    LET q    == GetFieldSafe(md, DocQualityCandidates)
        qf   == ToFloat(q)
        desc == PyOr(md.f["description"], PyOr(md.f["summary"], Str("")))
    IN IF q.t # "none" /\ qf.ok THEN (IF qf.n = NaN THEN NaN ELSE qf.n * 20)
       ELSE Min2(QualityCapLen, Max2(0, Len(desc.s)))

\* Raw popularity, lines 113-118, in tenths.
RawPopularity(md) ==
    LET p == GetFieldSafe(md, PopularityCandidates) IN
    IF p.t # "none" /\ ToFloat(p).ok THEN ToFloat(p).n ELSE 0

\* Raw recency, lines 120-122, in days.
RawRecency(md) == ParseDateToEpoch(GetFieldSafe(md, RecencyCandidates))

\* A pre-normalization that clamps a negative cosine to 0.0.
PreNormalizeSimilarityClampNegative(s) ==
    LET f  == ToFloat(Scalar(s))
        sv == IF f.ok THEN f.n ELSE 0
    IN IF sv < -Unit \/ sv > Unit THEN 2 * sv
       ELSE Max2(0, Min2(2 * Unit, 2 * sv))

\* A pre-normalization that counts a score that is no number as 1.0.
PreNormalizeSimilarityAsOne(s) ==
    LET f  == ToFloat(Scalar(s))
        sv == IF f.ok THEN f.n ELSE Unit
    IN IF sv < -Unit \/ sv > Unit THEN 2 * sv
       ELSE Max2(0, Min2(2 * Unit, IF sv < 0 THEN sv + Unit ELSE 2 * sv))

\* The similarity pre-normalization of lines 125-133, from tenths to 1/20ths.
PreNormalizeSimilarity(s) ==
    LET f  == ToFloat(Scalar(s))
        sv == IF f.ok THEN f.n ELSE 0
    IN IF sv = NaN THEN 2 * Unit   \* min(1.0, nan) is 1.0
       ELSE IF sv < -Unit \/ sv > Unit THEN 2 * sv
       ELSE Max2(0, Min2(2 * Unit, IF sv < 0 THEN sv + Unit ELSE 2 * sv))

\* A normalized value is kept as the fraction num/den it is; nan is 0/0.
Frac(a, d) == [num |-> a, den |-> d]
NaNFrac == Frac(0, 0)

\* round(a / d, 6) in millionths, for 0 <= a <= d, without leaving 32 bits.
ToMicro(a, d) ==
    IF a = d THEN Micro
    ELSE LET hi == (a * 1000) \div d
             lo == (((a * 1000) % d) * 2000 + d) \div (2 * d)
         IN hi * 1000 + lo

\* a / d to seven decimals, for 0 <= a <= d: the precision the weighted sum
\* is accumulated in before it is rounded to six.
ToFine(a, d) ==
    IF a = d THEN 10 * Micro
    ELSE LET q1 == (a * 1000) \div d
             r1 == (a * 1000) % d
             q2 == (r1 * 1000) \div d
             r2 == (r1 * 1000) % d
             q3 == (r2 * 20 + d) \div (2 * d)
         IN q1 * 10000 + q2 * 10 + q3

RelTol == 1000000000

\* math.isclose(hi, lo): |hi - lo| <= 1e-9 * max(|hi|, |lo|)
IsClose(hi, lo) ==
    /\ hi # NaN /\ lo # NaN
    /\ Abs(hi - lo) <= Max2(Abs(hi), Abs(lo)) \div RelTol

\* min(values) and max(values): the first value is kept until a later one
\* compares below (above) it, and nan compares below and above nothing.
RECURSIVE PyMin(_, _, _)
PyMin(values, i, cur) ==
    IF i > Len(values) THEN cur
    ELSE PyMin(values, i + 1,
               IF values[i] # NaN /\ cur # NaN /\ values[i] < cur THEN values[i] ELSE cur)

RECURSIVE PyMax(_, _, _)
PyMax(values, i, cur) ==
    IF i > Len(values) THEN cur
    ELSE PyMax(values, i + 1,
               IF values[i] # NaN /\ cur # NaN /\ values[i] > cur THEN values[i] ELSE cur)

SeqMin(xs) == CHOOSE m \in {xs[i] : i \in DOMAIN xs} : \A i \in DOMAIN xs : m <= xs[i]
SeqMax(xs) == CHOOSE m \in {xs[i] : i \in DOMAIN xs} : \A i \in DOMAIN xs : m >= xs[i]

\* A normalizer that maps a batch of equal values to 0.0.
MinMaxNormalizeToZero(values) ==
    IF Len(values) = 0 THEN <<>>
    ELSE LET lo == SeqMin(values)
             hi == SeqMax(values)
         IN IF IsClose(hi, lo) THEN [i \in DOMAIN values |-> Frac(0, 1)]
            ELSE [i \in DOMAIN values |-> Frac(values[i] - lo, hi - lo)]

\* _minmax_normalize(values): (v - lo) / (hi - lo) each, 0.5 each when hi
\* and lo are close.
MinMaxNormalize(values) ==
    IF Len(values) = 0 THEN <<>>
    ELSE LET lo == PyMin(values, 2, values[1])
             hi == PyMax(values, 2, values[1])
         IN IF IsClose(hi, lo) THEN [i \in DOMAIN values |-> Frac(1, 2)]
            ELSE [i \in DOMAIN values |->
                     IF NaN \in {values[i], lo, hi} THEN NaNFrac
                     ELSE Frac(values[i] - lo, hi - lo)]

----------------------------------------------------------------------------
(* ranking/dynamic_ranker.py: the hybrid scorer *)

\* floor(a / d + 1/2): round() of a non-negative quotient
RoundDiv(a, d) == (2 * a + d) \div (2 * d)

\* round(float(x), 6) of a normalized value, in millionths
Round6(x) == IF x = NaNFrac THEN NaN ELSE ToMicro(x.num, x.den)

\* The weighted sum of lines 144-149, rounded as line 159 rounds it.
HybridScore(weights, sim, q, rec, pop) ==
    IF NaNFrac \in {sim, q, rec, pop} THEN NaN
    ELSE
    RoundDiv(weights["similarity"].num * ToFine(sim.num, sim.den)
             + weights["doc_quality"].num * ToFine(q.num, q.den)
             + weights["recency"].num * ToFine(rec.num, rec.den)
             + weights["popularity"].num * ToFine(pop.num, pop.den),
             10 * weights["similarity"].den)

\* A batch padded with its last record instead of an empty mapping.
RecordAtRepeatLast(records, i) ==
    IF i <= Len(records) THEN records[i]
    ELSE IF Len(records) > 0 THEN records[Len(records)] ELSE EmptyDict

\* metadata_list[i] if i < len(metadata_list) else {}
RecordAt(records, i) == IF i <= Len(records) THEN records[i] ELSE EmptyDict

\* An entry of the ranked list, lines 152-162.
RankedEntry(id, sim, q, rec, pop, hybrid, md) ==
    [id |-> id, similarity |-> sim, doc_quality |-> q, recency |-> rec,
     popularity |-> pop, hybrid_score |-> hybrid, metadata |-> md]

\* An id fallback numbered by a counter that outlives the call.
DocIdCounting(md, i) ==
    PyOr(md.f["id"], PyOr(md.f["doc_id"], PyOr(md.f["api_id"],
         Str("doc_" \o ToString(i - 1 + Len(calls))))))

\* md.get("id") or md.get("doc_id") or md.get("api_id") or f"doc_{i}"
DocId(md, i) ==
    PyOr(md.f["id"], PyOr(md.f["doc_id"], PyOr(md.f["api_id"],
         Str("doc_" \o ToString(i - 1)))))

RECURSIVE InsertBeforeEquals(_, _)
\* e put into a descending list before its equals
InsertBeforeEquals(sorted, e) ==
    IF Len(sorted) = 0 THEN <<e>>
    ELSE IF Head(sorted).hybrid_score > e.hybrid_score
         THEN <<Head(sorted)>> \o InsertBeforeEquals(Tail(sorted), e)
         ELSE <<e>> \o sorted

RECURSIVE InsertDesc(_, _)
\* e put into a list sorted by descending hybrid_score, after its equals
InsertDesc(sorted, e) ==
    IF Len(sorted) = 0 THEN <<e>>
    ELSE IF Head(sorted).hybrid_score >= e.hybrid_score
         THEN <<Head(sorted)>> \o InsertDesc(Tail(sorted), e)
         ELSE <<e>> \o sorted

RECURSIVE SortedDesc(_, _)
\* sorted(ranked, key=hybrid_score, reverse=True): stable. The order among
\* keys that are nan is that of a batch of one: no larger batch holds one.
SortedDesc(ranked, i) ==
    IF i = 0 THEN <<>> ELSE InsertDesc(SortedDesc(ranked, i - 1), ranked[i])

\* A record the scorer cannot read: _get_field_safe or md.get raises on
\* anything that is not a dict.
Malformed(md) == md.k # "dict"

ScoreReturned(weights, ranked) ==
    [raised |-> FALSE, exc |-> "", weights |-> weights, ranked |-> ranked]

ScoreRaised(msg) ==
    [raised |-> TRUE, exc |-> msg, weights |-> ComputeDynamicWeights(NoneV), ranked |-> <<>>]

\* The entries of lines 96-162 in batch order, before the sort; the records
\* are all dicts.
ScoredEntries(records, scores, intent) ==
    LET n           == Max2(Len(records), Len(scores))
        raw_sim     == [i \in 1..n |-> IF i <= Len(scores) THEN scores[i] ELSE ONum(0)]
        raw_quality == [i \in 1..n |-> RawQuality(RecordAt(records, i))]
        raw_pop     == [i \in 1..n |-> RawPopularity(RecordAt(records, i))]
        raw_recency == [i \in 1..n |-> RawRecency(RecordAt(records, i))]
        sim_norm    == MinMaxNormalize([i \in 1..n |-> PreNormalizeSimilarity(raw_sim[i])])
        q_norm      == MinMaxNormalize(raw_quality)
        pop_norm    == MinMaxNormalize(raw_pop)
        rec_norm    == MinMaxNormalize(raw_recency)
        weights     == ComputeDynamicWeights(intent)
        hybrid(i)   == HybridScore(weights, sim_norm[i], q_norm[i], rec_norm[i],
                                       pop_norm[i])
    IN [i \in 1..n |->
          RankedEntry(DocId(RecordAt(records, i), i),
                      Round6(sim_norm[i]), Round6(q_norm[i]),
                      Round6(rec_norm[i]), Round6(pop_norm[i]),
                      hybrid(i), RecordAt(records, i))]

\* A scorer that returns the default weights for an empty batch.
ScoreDocumentsEmptyDefault(records, scores, intent) ==
    LET n == Max2(Len(records), Len(scores)) IN
    IF n = 0 THEN ScoreReturned(ComputeDynamicWeights(NoneV), <<>>)
    ELSE IF \E i \in 1..Len(records) : Malformed(records[i])
    THEN ScoreRaised("score_documents failed")
    ELSE ScoreReturned(ComputeDynamicWeights(intent),
                       SortedDesc(ScoredEntries(records, scores, intent), n))

\* A scorer that returns the entries it built before a record failed.
ScoreDocumentsPartial(records, scores, intent) ==
    LET n == Max2(Len(records), Len(scores)) IN
    IF n = 0 THEN ScoreReturned(ComputeDynamicWeights(intent), <<>>)
    ELSE IF \E i \in 1..Len(records) : Malformed(records[i])
    THEN LET bad == CHOOSE i \in 1..Len(records) :
                        /\ Malformed(records[i])
                        /\ \A j \in 1..(i - 1) : ~Malformed(records[j])
             done == Min2(bad - 1, Len(scores))
         IN ScoreReturned(ComputeDynamicWeights(intent),
                          SortedDesc(ScoredEntries(SubSeq(records, 1, bad - 1),
                                                   SubSeq(scores, 1, done), intent),
                                     bad - 1))
    ELSE ScoreReturned(ComputeDynamicWeights(intent),
                       SortedDesc(ScoredEntries(records, scores, intent), n))

\* score_documents(metadata_list, sim_scores, intent): {"weights", "ranked"},
\* or the RuntimeError it raises.
ScoreDocuments(records, scores, intent) ==
    LET n == Max2(Len(records), Len(scores)) IN
    IF n = 0 THEN ScoreReturned(ComputeDynamicWeights(intent), <<>>)
    ELSE IF \E i \in 1..Len(records) : Malformed(records[i])
    THEN ScoreRaised("score_documents failed")
    ELSE ScoreReturned(ComputeDynamicWeights(intent),
                       SortedDesc(ScoredEntries(records, scores, intent), n))

----------------------------------------------------------------------------
(* backend/pipeline.py: the result materializer *)

\* DocumentResult(**doc): the validation fails when id is not a string.
DocumentResultValid(doc) == doc.id.t = "str"

\* _docresult_from_dict(d): the canonical record, or the validation error.
DocResultFromDict(d) ==
    LET doc == [id           |-> PyOr(d.id, Str("unknown")),
                similarity   |-> PyOr(Num(d.similarity), Num(0)).n,
                doc_quality  |-> PyOr(Num(d.doc_quality), Num(0)).n,
                recency      |-> PyOr(Num(d.recency), Num(0)).n,
                popularity   |-> PyOr(Num(d.popularity), Num(0)).n,
                hybrid_score |-> PyOr(Num(d.hybrid_score), Num(0)).n,
                metadata     |-> IF d.metadata = EmptyDict THEN EmptyDict ELSE d.metadata]
    IN [raised |-> ~DocumentResultValid(doc), doc |-> doc]

\* The minimal record the entry points build when _docresult_from_dict raises.
FallbackRecord(d) ==
    [id           |-> d.id,
     similarity   |-> PyOr(Num(d.similarity), Num(0)).n,
     doc_quality  |-> PyOr(Num(d.doc_quality), Num(0)).n,
     recency      |-> PyOr(Num(d.recency), Num(0)).n,
     popularity   |-> PyOr(Num(d.popularity), Num(0)).n,
     hybrid_score |-> PyOr(Num(d.hybrid_score), Num(0)).n,
     metadata     |-> d.metadata]

\* Whether building the fallback raises: float() of a field that is no number.
FallbackRaises(d) ==
    \E x \in {d.similarity, d.doc_quality, d.recency, d.popularity, d.hybrid_score} :
        ~ToFloat(PyOr(Num(x), Num(0))).ok

\* The materializer without its except clause.
MaterializeOneUncaught(d) == DocResultFromDict(d)

\* try: _docresult_from_dict(d) except Exception: the fallback. An exception
\* of the fallback itself is not caught.
MaterializeOne(d) ==
    IF ~DocResultFromDict(d).raised THEN DocResultFromDict(d)
    ELSE [raised |-> FallbackRaises(d), doc |-> FallbackRecord(d)]

\* A loop that leaves out every record whose conversion fails.
MaterializeAllDropFailed(ranked_docs) ==
    LET kept == SelectSeq(ranked_docs, LAMBDA d : ~DocResultFromDict(d).raised)
    IN [i \in 1..Len(kept) |-> MaterializeOne(kept[i])]

\* the loop over ranked_docs of recommend and evaluate
MaterializeAll(ranked_docs) == [i \in 1..Len(ranked_docs) |-> MaterializeOne(ranked_docs[i])]

----------------------------------------------------------------------------
(* backend/pipeline.py: response envelopes *)

NoError == [none |-> TRUE, code |-> "", message |-> ""]
Error(code, message) == [none |-> FALSE, code |-> code, message |-> message]

NoSource == [none |-> TRUE, document |-> <<>>, excerpt |-> NoneV]

NoExplanation == [k |-> "none", s |-> "", excerpt |-> NoneV]
ExplStr(text) == [k |-> "str", s |-> text, excerpt |-> NoneV]
ExplDict(text, excerpt) == [k |-> "dict", s |-> text, excerpt |-> excerpt]

NoPayload ==
    [none |-> TRUE, keys |-> {}, results |-> <<>>, answer |-> NoExplanation,
     source |-> NoSource, explanation |-> NoExplanation, timing |-> <<>>]

\* payload of a recommend response; the ok payload also carries "weights"
RecommendPayload(res, withWeights, tm) ==
    [none |-> FALSE,
     keys |-> {"query", "intent", "results", "timing"}
              \cup (IF withWeights THEN {"weights"} ELSE {}),
     results |-> res, answer |-> NoExplanation, source |-> NoSource,
     explanation |-> NoExplanation, timing |-> tm]

AskPayload(answer, source, expl, tm) ==
    [none |-> FALSE, keys |-> {"answer", "source", "explanation", "timing"},
     results |-> <<>>, answer |-> answer, source |-> source,
     explanation |-> expl, timing |-> tm]

EvaluatePayload(res, tm) ==
    [none |-> FALSE, keys |-> {"query", "ground_truth", "metrics", "results", "timing"},
     results |-> res, answer |-> NoExplanation, source |-> NoSource,
     explanation |-> NoExplanation, timing |-> tm]

Timing(retrieval, ranking, compose) ==
    [retrieval_ms |-> retrieval, ranking_ms |-> ranking, compose_ms |-> compose]

EvalTiming(retrieval, ranking) ==
    [retrieval_ms |-> retrieval, ranking_ms |-> ranking, eval_ms |-> 0]

Envelope(rid, status, error, payload) ==
    [none |-> FALSE, request_id |-> rid, status |-> status, error |-> error,
     payload |-> payload]

NoResponse ==
    [none |-> TRUE, request_id |-> "", status |-> "", error |-> NoError,
     payload |-> NoPayload]

\* RecommendResponse, AskResponse, EvaluateResponse of backend/schemas.py:
\* only EvaluateResponse takes payload=None, the others fail validation.
ResponseModelValid(m, env) == env.payload.none => m = "evaluate"

\* An error envelope with one code for every failure.
ErrorEnvelopeInternalCode(m, rid, code, message, tm) ==
    Envelope(rid, "error", Error("INTERNAL_ERROR", message),
             CASE m = "recommend" -> RecommendPayload(<<>>, FALSE, tm)
               [] m = "ask"       -> AskPayload(ExplStr(""), NoSource, NoExplanation, tm)
               [] OTHER           -> NoPayload)

\* An error envelope that replaces the exception text by a fixed message.
ErrorEnvelopeFixedMessage(m, rid, code, message, tm) ==
    Envelope(rid, "error", Error(code, "Internal error"),
             CASE m = "recommend" -> RecommendPayload(<<>>, FALSE, tm)
               [] m = "ask"       -> AskPayload(ExplStr(""), NoSource, NoExplanation, tm)
               [] OTHER           -> NoPayload)

\* An error envelope that reports every failure as a retrieval failure.
ErrorEnvelopeRetrieverCode(m, rid, code, message, tm) ==
    Envelope(rid, "error", Error("RETRIEVER_ERROR", message),
             CASE m = "recommend" -> RecommendPayload(<<>>, FALSE, tm)
               [] m = "ask"       -> AskPayload(ExplStr(""), NoSource, NoExplanation, tm)
               [] OTHER           -> NoPayload)

\* The envelope an entry point returns when a stage fails, lines 118-132,
\* 142-156, 218-232, 242-252, 321 and 331.
ErrorEnvelope(m, rid, code, message, tm) ==
    Envelope(rid, "error", Error(code, message),
             CASE m = "recommend" -> RecommendPayload(<<>>, FALSE, tm)
               [] m = "ask"       -> AskPayload(ExplStr(""), NoSource, NoExplanation, tm)
               [] OTHER           -> NoPayload)

----------------------------------------------------------------------------
(* The requests and the collaborators' outcomes *)

recA == ODict([id |-> Str("a"), doc_quality |-> Num(10), popularity |-> Num(0),
               last_updated |-> Str("2024-01-01")])
recB == ODict([id |-> Str("b"), doc_quality |-> Num(0), popularity |-> Num(10),
               last_updated |-> Str("2024-01-01")])
\* a record with a numeric id, no explicit quality and a text popularity
recC == ODict([api_id |-> Num(7), name |-> Str("MockAPI-7"),
               description |-> Str("Mock API data"), stars |-> Str("n/a"),
               updated |-> Str("2023-01-01")])

Candidates == {recA, recB, recC}
ScoreValues == {ONum(9), ONum(-5)}

RecordLists == UNION {[1..n -> Candidates] : n \in 0..MaxLen}
ScoreLists == UNION {[1..n -> ScoreValues] : n \in 0..MaxLen}

ORaise(msg) == Obj("raise", 0, msg, NoFields, <<>>)

\* What semantic_retrieve gives: the documented (metadata, similarities)
\* pair, a bare list of records, None, other shapes, or an exception.
DocumentedOutcomes ==
    {OTuple(<<OList(r), OList(sc)>>) : r \in RecordLists, sc \in ScoreLists}

BareListOutcomes ==
    {OList(r) : r \in RecordLists}
    \cup {OList(<<recA, OStr("oops")>>), OList(<<ONone>>), OList(<<recA, recB, recC>>)}

OddPairOutcomes ==
    {OTuple(<<ONone, OList(<<ONum(9)>>)>>),
     OTuple(<<OList(<<recA>>), ONone>>),
     OTuple(<<ONone, ONone>>),
     OTuple(<<OTuple(<<recA, recB>>), OTuple(<<ONum(9), ONum(-5)>>)>>),
     OList(<<OList(<<recB, recA>>), OList(<<ONum(9)>>)>>),
     OTuple(<<ONum(42), OList(<<ONum(9)>>)>>),
     OTuple(<<OList(<<recA>>), ONum(9)>>),
     OTuple(<<recA, OList(<<ONum(9)>>)>>),
     OTuple(<<OList(<<OStr("oops")>>), OList(<<ONum(9)>>)>>),
     OTuple(<<OList(<<recA, recB>>), OList(<<OStr("n/a"), OStr("0.9")>>)>>),
     OTuple(<<OList(<<recA, recB>>), OList(<<ONum(25), ONum(9)>>)>>),
     OTuple(<<OStr("ab"), OStr("")>>)}

OtherOutcomes ==
    {ONone, ONum(42), OStr("no index"), recA, EmptyDict,
     OTuple(<<OList(<<recA>>)>>),
     OTuple(<<OList(<<recA>>), OList(<<ONum(9)>>), OList(<<>>)>>)}

RaiseOutcomes == {ORaise("Semantic retrieval failed"), ORaise("index not loaded")}

RetrieverOutcomes ==
    DocumentedOutcomes \cup BareListOutcomes \cup OddPairOutcomes
    \cup OtherOutcomes \cup RaiseOutcomes

ExplainReturned(value) == [raised |-> FALSE, exc |-> "", value |-> value]
ExplainRaised(msg) == [raised |-> TRUE, exc |-> msg, value |-> NoExplanation]

\* What explain_top_result gives: a string, a mapping (with or without an
\* excerpt), or an exception.
ExplainOutcomes ==
    {ExplainReturned(ExplStr("ranked highest")),
     ExplainReturned(ExplDict("ranked highest", Str("balances semantic match"))),
     ExplainReturned(ExplDict("ranked highest", NoneV)),
     ExplainRaised("composer failed")}

Modes == {"recommend", "ask", "evaluate"}
RequestIds == {NoneV, Str(""), Str("req-1")}
Uuids == {"uuid-1"}
Intents == {NoneV, Str("latest"), Str(" Most POPULAR ")}
TopKs == {1}
Queries == {"auth api"}
\* int((time.time() - t) * 1000) of a stage: nothing, or some milliseconds
ElapsedMs == {0, 7}

Request(rid, query, intent, top_k) ==
    [request_id |-> rid, query |-> query, intent |-> intent, top_k |-> top_k]

NoRequest == Request(NoneV, "", NoneV, 0)
NoTiming == Timing(0, 0, 0)
NoRankOut == ScoreReturned(<<>>, <<>>)
NoExplainOut == ExplainReturned(NoExplanation)

\* The locals of a call that has not begun.
IdleFrame ==
    [pc |-> "idle", mode |-> "recommend", req |-> NoRequest, request_id |-> "",
     raw |-> ONone, metadata_list |-> <<>>, sim_scores |-> <<>>,
     rank_out |-> NoRankOut, explain_out |-> NoExplainOut,
     explanation |-> NoExplanation, results |-> <<>>, timing |-> NoTiming,
     calls |-> <<>>, resp |-> NoResponse]

----------------------------------------------------------------------------
(* backend/pipeline.py: the three entry points, stage by stage *)

Init ==
    /\ pc = "idle"
    /\ mode = "recommend"
    /\ req = NoRequest
    /\ request_id = ""
    /\ raw = ONone
    /\ metadata_list = <<>>
    /\ sim_scores = <<>>
    /\ rank_out = NoRankOut
    /\ explain_out = NoExplainOut
    /\ explanation = NoExplanation
    /\ results = <<>>
    /\ timing = NoTiming
    /\ calls = <<>>
    /\ resp = NoResponse
    /\ peer = IdleFrame

\* An intent kept in module state: the scorer reads the intent the call
\* that began last has written there.
RankIntentShared ==
    IF peer.pc \in {"retrieve", "rank"} THEN peer.req.intent
    ELSE IF mode = "evaluate" THEN NoneV ELSE req.intent

\* The intent handed to score_documents: req.intent, and None in evaluate.
RankIntent == IF mode = "evaluate" THEN NoneV ELSE req.intent

\* A call of run_recommend_pipeline, run_ask_pipeline or run_evaluate_pipeline
\* begins: the request id is fixed (lines 107, 207, 311).
Receive(m, rid, query, intent, top_k, uuid) ==
    /\ pc = "idle"
    /\ pc' = "retrieve"
    /\ mode' = m
    /\ req' = Request(rid, query, IF m = "evaluate" THEN NoneV ELSE intent, top_k)
    /\ request_id' = EnsureRequestId(rid, uuid)
    /\ raw' = ONone
    /\ metadata_list' = <<>>
    /\ sim_scores' = <<>>
    /\ rank_out' = NoRankOut
    /\ explain_out' = NoExplainOut
    /\ explanation' = NoExplanation
    /\ results' = <<>>
    /\ timing' = NoTiming
    /\ calls' = <<>>
    /\ resp' = NoResponse
    /\ UNCHANGED peer

\* return env: the response model is built and handed to the caller; a
\* validation error of the model propagates out of the entry point.
ReturnResponse(env) ==
    /\ resp' = IF ResponseModelValid(mode, env) THEN env ELSE NoResponse
    /\ pc' = IF ResponseModelValid(mode, env) THEN "done" ELSE "raised"

\* Stage 1, lines 112-134, 212-234, 316-323: semantic_retrieve and the
\* adapter inside one try; an exception of either returns RETRIEVER_ERROR.
Retrieve(out, el) ==
    /\ pc = "retrieve"
    /\ calls' = Append(calls, "semantic_retrieve")
    /\ raw' = out
    /\ LET norm == IF out.k = "raise" THEN Raised(out.s)
                   ELSE NormalizeRetrieverOutput(out)
       IN IF norm.raised
          THEN /\ ReturnResponse(ErrorEnvelope(mode, request_id, "RETRIEVER_ERROR",
                                                norm.exc, Timing(el, 0, 0)))
               /\ UNCHANGED <<metadata_list, sim_scores, timing>>
          ELSE /\ metadata_list' = norm.records
               /\ sim_scores' = norm.scores
               /\ timing' = [timing EXCEPT !.retrieval_ms = el]
               /\ pc' = "rank"
               /\ UNCHANGED resp
    /\ UNCHANGED <<peer, mode, req, request_id, rank_out, explain_out, explanation, results>>

\* An empty ranking reported as a failure.
NoResultsAsError(rid, tm) ==
    Envelope(rid, "error", Error("NO_RESULTS", "No relevant results found."),
             AskPayload(ExplStr(""), NoSource, NoExplanation, tm))

\* The ask envelope for an empty ranking, lines 257-268.
NoResultsEnvelope(rid, tm) ==
    Envelope(rid, "ok", NoError,
             AskPayload(ExplStr("No relevant results found."), NoSource, NoExplanation, tm))

\* Every entry point explains its top record.
AfterRankExplainAll(m, ranked_docs) ==
    IF m = "ask" /\ Len(ranked_docs) = 0 THEN "done" ELSE "explain"

\* Where an entry point goes after a successful ranking: ask returns when
\* nothing was ranked (line 257) and explains the top record otherwise;
\* recommend and evaluate materialize.
AfterRank(m, ranked_docs) ==
    IF m = "ask" THEN (IF Len(ranked_docs) = 0 THEN "done" ELSE "explain")
    ELSE "materialize"

\* Stage 2, lines 137-158, 237-268, 326-334: score_documents; an exception
\* returns RANKER_ERROR; ask returns at once when nothing was ranked.
Rank(el) ==
    /\ pc = "rank"
    /\ calls' = Append(calls, "score_documents")
    /\ LET out == ScoreDocuments(metadata_list, sim_scores, RankIntent)
       IN /\ rank_out' = out
          /\ IF out.raised
             THEN /\ ReturnResponse(ErrorEnvelope(mode, request_id, "RANKER_ERROR",
                                                   out.exc,
                                                   Timing(timing.retrieval_ms, el, 0)))
                  /\ UNCHANGED timing
             ELSE /\ timing' = [timing EXCEPT !.ranking_ms = el]
                  /\ IF AfterRank(mode, out.ranked) = "done"
                     THEN ReturnResponse(NoResultsEnvelope(request_id,
                                             Timing(timing.retrieval_ms, el, 0)))
                     ELSE /\ pc' = AfterRank(mode, out.ranked)
                          /\ UNCHANGED resp
    /\ UNCHANGED <<peer, mode, req, request_id, raw, metadata_list, sim_scores,
                   explain_out, explanation, results>>

\* An explainer failure that loses the exception text.
ExplanationOfLost(out) == out.value

\* try: explanation = explain_top_result(top) except Exception as e:
\* explanation = str(e)
ExplanationOf(out) == IF out.raised THEN ExplStr(out.exc) ELSE out.value

\* An explanation stage that turns the ranking round when the explainer fails.
ExplainReordering(out, el) ==
    /\ pc = "explain"
    /\ calls' = Append(calls, "explain_top_result")
    /\ explain_out' = out
    /\ explanation' = ExplanationOf(out)
    /\ timing' = [timing EXCEPT !.compose_ms = IF out.raised THEN 0 ELSE el]
    /\ pc' = "materialize"
    /\ rank_out' = IF out.raised
                   THEN [rank_out EXCEPT !.ranked =
                            [i \in DOMAIN @ |-> @[Len(@) + 1 - i]]]
                   ELSE rank_out
    /\ UNCHANGED <<peer, mode, req, request_id, raw, metadata_list, sim_scores,
                   results, resp>>

\* Stage 3 (ask), lines 270-279: explain_top_result on the top record; an
\* exception is kept as the explanation text.
Explain(out, el) ==
    /\ pc = "explain"
    /\ calls' = Append(calls, "explain_top_result")
    /\ explain_out' = out
    /\ explanation' = ExplanationOf(out)
    /\ timing' = [timing EXCEPT !.compose_ms = IF out.raised THEN 0 ELSE el]
    /\ pc' = "materialize"
    /\ UNCHANGED <<peer, mode, req, request_id, raw, metadata_list, sim_scores, rank_out,
                   results, resp>>

\* Stage 4, lines 164-180, 281-293, 336-351: the ranked records (ask: the
\* top one) become canonical records.
Materialize ==
    /\ pc = "materialize"
    /\ LET done == IF mode = "ask" THEN <<MaterializeOne(rank_out.ranked[1])>>
                   ELSE MaterializeAll(rank_out.ranked)
       IN IF \E i \in DOMAIN done : done[i].raised
          THEN /\ pc' = "raised"
               /\ UNCHANGED results
          ELSE /\ pc' = "respond"
               /\ results' = [i \in DOMAIN done |-> done[i].doc]
    /\ UNCHANGED <<peer, mode, req, request_id, raw, metadata_list, sim_scores, rank_out,
                   explain_out, explanation, timing, calls, resp>>

\* An ok envelope whose evaluate payload reports no timing.
OkEnvelopeNoTiming(m, rid, res, expl, tm) ==
    Envelope(rid, "ok", NoError,
             CASE m = "recommend" -> RecommendPayload(res, TRUE, tm)
               [] m = "ask" ->
                    AskPayload(expl,
                               [none |-> FALSE, document |-> res[1],
                                excerpt |-> IF expl.k = "dict" THEN expl.excerpt ELSE Str("")],
                               expl, tm)
               [] OTHER -> [EvaluatePayload(res, <<>>) EXCEPT
                               !.keys = @ \ {"timing"}])

\* The ok envelope of each entry point, lines 183-198, 295-302, 356-367.
OkEnvelope(m, rid, res, expl, tm) ==
    Envelope(rid, "ok", NoError,
             CASE m = "recommend" -> RecommendPayload(res, TRUE, tm)
               [] m = "ask" ->
                    AskPayload(expl,
                               [none |-> FALSE, document |-> res[1],
                                excerpt |-> IF expl.k = "dict" THEN expl.excerpt ELSE Str("")],
                               expl, tm)
               [] OTHER -> EvaluatePayload(res, EvalTiming(tm.retrieval_ms, tm.ranking_ms)))

\* Stage 5: the envelope is built and returned.
Respond ==
    /\ pc = "respond"
    /\ ReturnResponse(OkEnvelope(mode, request_id, results, explanation, timing))
    /\ UNCHANGED <<peer, mode, req, request_id, raw, metadata_list, sim_scores, rank_out,
                   explain_out, explanation, results, timing, calls>>

\* The caller has the envelope (or the exception); the next request may come.
Return ==
    /\ pc \in {"done", "raised"}
    /\ pc' = "idle"
    /\ mode' = "recommend"
    /\ req' = NoRequest
    /\ request_id' = ""
    /\ raw' = ONone
    /\ metadata_list' = <<>>
    /\ sim_scores' = <<>>
    /\ rank_out' = NoRankOut
    /\ explain_out' = NoExplainOut
    /\ explanation' = NoExplanation
    /\ results' = <<>>
    /\ timing' = NoTiming
    /\ calls' = <<>>
    /\ resp' = NoResponse
    /\ UNCHANGED peer

Next ==
    \/ \E m \in Modes, rid \in RequestIds, query \in Queries, intent \in Intents,
          top_k \in TopKs, uuid \in Uuids : Receive(m, rid, query, intent, top_k, uuid)
    \/ \E out \in RetrieverOutcomes, el \in ElapsedMs : Retrieve(out, el)
    \/ \E el \in ElapsedMs : Rank(el)
    \/ \E out \in ExplainOutcomes, el \in ElapsedMs : Explain(out, el)
    \/ Materialize
    \/ Respond
    \/ Return

Spec == Init /\ [][Next]_vars

----------------------------------------------------------------------------
(* Properties of the entry points *)

Called(name) == \E i \in DOMAIN calls : calls[i] = name

\* C1: every call of an entry point ends by returning exactly one envelope
\* whose status is "ok" or "error": no exception leaves the entry point
\* whatever the retriever, the scorer and the explainer return or raise, and
\* the envelope exists exactly when the call has returned.
C1_AlwaysOneEnvelope ==
    /\ pc # "raised"
    /\ (pc = "done") <=> ~resp.none
    /\ ~resp.none => resp.status \in {"ok", "error"}
    /\ ~resp.none => (resp.status = "ok" <=> resp.error.none)

\* a retriever that returned a pair whose first slot is a number
C1_Witness ==
    /\ pc = "done"
    /\ raw = OTuple(<<ONum(42), OList(<<ONum(9)>>)>>)
    /\ resp.status = "error"

\* C2: when semantic_retrieve raises, the call ends at once with status
\* "error", error code RETRIEVER_ERROR and the exception text as message;
\* score_documents and explain_top_result are never invoked; in every mode.
C2_RetrievalFailure ==
    raw.k = "raise" =>
        /\ pc = "done"
        /\ resp.status = "error"
        /\ ~resp.error.none
        /\ resp.error.code = "RETRIEVER_ERROR"
        /\ resp.error.message = raw.s
        /\ calls = <<"semantic_retrieve">>

C2_Witness ==
    /\ raw = ORaise("index not loaded")
    /\ mode = "evaluate"
    /\ pc = "done"

\* C3: when retrieval succeeded and score_documents raises, the envelope has
\* status "error" and code RANKER_ERROR (never RETRIEVER_ERROR), the explainer
\* is never invoked, recommend's payload has results [] and ask's payload has
\* source None.
C3_RankingFailure ==
    rank_out.raised =>
        /\ pc = "done"
        /\ resp.status = "error"
        /\ ~resp.error.none
        /\ resp.error.code = "RANKER_ERROR"
        /\ resp.error.message = rank_out.exc
        /\ calls = <<"semantic_retrieve", "score_documents">>
        /\ mode = "recommend" => ~resp.payload.none /\ resp.payload.results = <<>>
        /\ mode = "ask" => ~resp.payload.none /\ resp.payload.source.none

C3_Witness ==
    /\ rank_out.raised
    /\ mode = "ask"
    /\ raw = OTuple(<<OList(<<OStr("oops")>>), OList(<<ONum(9)>>)>>)
    /\ pc = "done"

\* C4: in ask mode, when explain_top_result raises, the envelope still has
\* status "ok" and error None; the answer and the explanation are the text of
\* the exception, and source.document is the top ranked record, field by field.
C4_ExplainerFailure ==
    (pc = "done" /\ mode = "ask" /\ explain_out.raised) =>
        /\ resp.status = "ok"
        /\ resp.error.none
        /\ resp.payload.answer = ExplStr(explain_out.exc)
        /\ resp.payload.explanation = ExplStr(explain_out.exc)
        /\ ~resp.payload.source.none
        /\ LET document == resp.payload.source.document
               top == rank_out.ranked[1]
           IN /\ document.id = top.id
              /\ document.similarity = top.similarity
              /\ document.doc_quality = top.doc_quality
              /\ document.recency = top.recency
              /\ document.popularity = top.popularity
              /\ document.hybrid_score = top.hybrid_score
              /\ document.metadata = top.metadata
              /\ \A i \in DOMAIN rank_out.ranked :
                     top.hybrid_score >= rank_out.ranked[i].hybrid_score

C4_Witness ==
    /\ pc = "done"
    /\ mode = "ask"
    /\ explain_out.raised
    /\ Len(rank_out.ranked) = 2
    /\ resp.payload.answer = ExplStr("composer failed")

\* C5: in ask mode, when ranking succeeds with no ranked record (the retriever
\* gave None, an empty list or a shape the adapter does not recognise), the
\* envelope has status "ok", error None, the answer "No relevant results
\* found." and source None, and explain_top_result is never invoked.
C5_AskNothingRanked ==
    (mode = "ask" /\ Called("score_documents") /\ ~rank_out.raised
        /\ Len(rank_out.ranked) = 0) =>
        /\ pc = "done"
        /\ resp.status = "ok"
        /\ resp.error.none
        /\ resp.payload.answer = ExplStr("No relevant results found.")
        /\ resp.payload.source.none
        /\ resp.payload.explanation = NoExplanation
        /\ ~Called("explain_top_result")

C5_Witness ==
    /\ mode = "ask"
    /\ raw = OStr("no index")
    /\ Called("score_documents")
    /\ pc = "done"

\* The payload of an envelope carries "timing" with the entries of its entry
\* point, and a stage that was not attempted is reported as zero.
TimingReported(env) ==
    /\ ~env.payload.none
    /\ "timing" \in env.payload.keys
    /\ LET tm == env.payload.timing
           last == IF mode = "evaluate" THEN "eval_ms" ELSE "compose_ms"
       IN /\ DOMAIN tm = {"retrieval_ms", "ranking_ms", last}
          /\ tm.retrieval_ms \in ElapsedMs
          /\ tm.ranking_ms \in ElapsedMs
          /\ ~Called("score_documents") => tm.ranking_ms = 0
          /\ ~Called("explain_top_result") => tm[last] = 0

\* C6 as the specification states it: every envelope of every entry point,
\* on success and on error paths, has a payload with a "timing" entry.
C6_TimingOnEveryEnvelope == ~resp.none => TimingReported(resp)

\* C6: every envelope of recommend and ask, and every ok envelope of
\* evaluate, has a payload whose "timing" has an entry for each stage, a
\* stage not attempted being zero; an error envelope of evaluate has no
\* payload at all.
C6_TimingWhereThereIsAPayload ==
    ~resp.none =>
        IF mode = "evaluate" /\ resp.status = "error"
        THEN resp.payload.none
        ELSE TimingReported(resp)

C6_Witness ==
    /\ pc = "done"
    /\ mode = "evaluate"
    /\ resp.status = "error"
    /\ resp.error.code = "RANKER_ERROR"
    /\ resp.payload.none

\* C7: the request identifier is fixed when the call begins and never changes
\* during the call; a non-empty identifier of the caller is the one every
\* envelope carries, on every path; an absent or empty one is replaced by
\* one generated, non-empty identifier.
C7_RequestIdFixed ==
    /\ [](pc # "idle" =>
            /\ IF Truthy(req.request_id)
               THEN request_id = req.request_id.s
               ELSE request_id \in Uuids
            /\ request_id # ""
            /\ ~resp.none => resp.request_id = request_id)
    /\ [][(pc # "idle" /\ pc' # "idle") => (request_id' = request_id /\ req' = req)]_vars

C7_Witness ==
    /\ pc = "done"
    /\ req.request_id = Str("req-1")
    /\ resp.request_id = "req-1"
    /\ resp.status = "error"

StageNo(p) ==
    CASE p = "idle" -> 0 [] p = "retrieve" -> 1 [] p = "rank" -> 2
      [] p = "explain" -> 3 [] p = "materialize" -> 4 [] p = "respond" -> 5
      [] OTHER -> 6

StageCalls == <<"semantic_retrieve", "score_documents", "explain_top_result">>

\* C8: the stages run in the order RETRIEVE, RANK, EXPLAIN (ask only),
\* MATERIALIZE, RESPOND and none is re-entered: the retriever is invoked
\* exactly once and first; the scorer at most once and only after a
\* successful retrieval; the explainer at most once, only in ask mode and
\* only after a ranking that is not empty.
C8_StageOrder ==
    /\ [](/\ Len(calls) <= 3
          /\ calls = SubSeq(StageCalls, 1, Len(calls))
          /\ pc \notin {"idle", "retrieve"} => Called("semantic_retrieve")
          /\ Called("score_documents") =>
                raw.k # "raise" /\ ~NormalizeRetrieverOutput(raw).raised
          /\ Called("explain_top_result") =>
                mode = "ask" /\ ~rank_out.raised /\ Len(rank_out.ranked) > 0
          /\ pc \in {"materialize", "respond"} =>
                /\ Called("score_documents") /\ ~rank_out.raised
                /\ mode = "ask" => Called("explain_top_result")
          /\ (pc = "done" /\ resp.status = "ok" /\ mode # "ask") =>
                Len(resp.payload.results) = Len(rank_out.ranked))
    /\ [][pc' = "idle" \/ StageNo(pc') > StageNo(pc)]_vars

C8_Witness ==
    /\ pc = "done"
    /\ mode = "ask"
    /\ calls = StageCalls
    /\ ~explain_out.raised

\* C9 as the specification states it: _normalize_retriever_output never
\* raises, whatever the retriever returned: None gives ([], []), and so does
\* anything that is neither a two-element sequence nor a list, and the call
\* does not end with RETRIEVER_ERROR when the retriever returned.
C9_AdapterNeverRaises ==
    (Called("semantic_retrieve") /\ raw.k # "raise") =>
        /\ ~NormalizeRetrieverOutput(raw).raised
        /\ raw.k = "none" => metadata_list = <<>> /\ sim_scores = <<>>
        /\ raw.k \notin {"list", "tuple"} => metadata_list = <<>> /\ sim_scores = <<>>
        /\ ~(pc = "done" /\ resp.status = "error"
               /\ resp.error.code = "RETRIEVER_ERROR")

\* C10 as the specification states it: a bare list of candidate records, of
\* any length, is taken unchanged as the record list, with no similarities.
C10_BareListKept ==
    (Called("semantic_retrieve") /\ raw.k = "list"
        /\ \A i \in DOMAIN raw.items : raw.items[i].k = "dict") =>
        /\ metadata_list = raw.items
        /\ sim_scores = <<>>

----------------------------------------------------------------------------
(* ranking/dynamic_ranker.py: score_documents called directly *)

\* The intents a caller hands to score_documents.
ScorerIntents ==
    {NoneV, Str(""), Str("recommend"), Str("latest"), Str("popular"), Str("reliable"),
     Str("default"), Str(" Latest "), Str("most popular latest"),
     Str("trending quality"), Str("quality recommend"), Str("weather")}

\* The batches: records (one of them no dict) and similarities (one of them
\* no number), of equal or different lengths.
ScorerRecords == Candidates \cup {OStr("oops")}
\* similarity scores beside the two of the entry points: a value outside
\* the cosine range [-1, 1] and a small positive value
WideScores == {ONum(25), ONum(2)}
ScorerScores == ScoreValues \cup {OStr("n/a")} \cup WideScores
ScorerRecordLists == UNION {[1..n -> ScorerRecords] : n \in 0..MaxLen}
ScorerScoreLists == UNION {[1..n -> ScorerScores] : n \in 0..MaxLen}

\* The intents that are tried on every batch; the others are tried on the
\* batches of at most one candidate.
BatchIntents == {NoneV, Str("latest"), Str("most popular latest"), Str("popular")}

\* A caller holds a batch and an intent.
ScorerInit ==
    /\ pc = "scorer"
    /\ mode = "recommend"
    /\ req \in {Request(NoneV, query, intent, top_k) :
                   query \in Queries, intent \in ScorerIntents, top_k \in TopKs}
    /\ request_id = ""
    /\ raw = ONone
    /\ metadata_list \in ScorerRecordLists
    /\ sim_scores \in ScorerScoreLists
    /\ req.intent \in BatchIntents \/ Max2(Len(metadata_list), Len(sim_scores)) <= 1
    /\ (\E i \in DOMAIN sim_scores : sim_scores[i] \in WideScores) =>
          Len(metadata_list) <= 1
    /\ rank_out = NoRankOut
    /\ explain_out = NoExplainOut
    /\ explanation = NoExplanation
    /\ results = <<>>
    /\ timing = NoTiming
    /\ calls = <<>>
    /\ resp = NoResponse
    /\ peer = IdleFrame

\* score_documents(metadata_list, sim_scores, intent) on the caller's batch.
ScoreCall ==
    /\ pc = "scorer"
    /\ Len(calls) < MaxCalls
    /\ rank_out' = ScoreDocuments(metadata_list, sim_scores, req.intent)
    /\ calls' = Append(calls, "score_documents")
    /\ UNCHANGED <<peer, pc, mode, req, request_id, raw, metadata_list, sim_scores,
                   explain_out, explanation, results, timing, resp>>

\* A call of score_documents on some other batch, made after a call on the
\* caller's batch: the function writes no module state and does not touch
\* the caller's batch, so only the number of calls made changes.
ScoreOther ==
    /\ pc = "scorer"
    /\ Len(calls) < MaxCalls
    /\ Len(calls) > 0 /\ calls[Len(calls)] = "score_documents"
    /\ calls' = Append(calls, "score_documents(other)")
    /\ UNCHANGED <<peer, pc, mode, req, request_id, raw, metadata_list, sim_scores, rank_out,
                   explain_out, explanation, results, timing, resp>>

ScorerNext == ScoreCall \/ ScoreOther

ScorerSpec == ScorerInit /\ [][ScorerNext]_vars

\* The weights score_documents returned are a scalar fraction per signal.
WeightLess(a, b) == a.num * b.den < b.num * a.den

\* C11: for every intent (None, empty, a profile name, free text) the weight
\* vector has exactly the keys similarity, doc_quality, recency and
\* popularity, every weight is non-negative and the four sum to 1.
C11_WeightsSumToOne ==
    LET w == ComputeDynamicWeights(req.intent) IN
    /\ DOMAIN w = Signals
    /\ \A k \in Signals : w[k].den > 0 /\ w[k].num >= 0
    /\ \A k \in Signals : w[k].den = w["similarity"].den
    /\ w["similarity"].num + w["doc_quality"].num + w["recency"].num
         + w["popularity"].num = w["similarity"].den
    /\ (Called("score_documents") /\ ~rank_out.raised) => rank_out.weights = w

C11_Witness ==
    /\ req.intent = Str("weather")
    /\ Called("score_documents")
    /\ Len(rank_out.ranked) = 1

\* The profile each intent of ScorerIntents must resolve to: the exact name,
\* else the earliest of the rules latest, popular/trend, reliab/quality,
\* recommend-or-empty, default.
ExpectedProfile(intent) ==
    CASE intent = NoneV                      -> "recommend"
      [] intent = Str("")                    -> "recommend"
      [] intent = Str("recommend")           -> "recommend"
      [] intent = Str("latest")              -> "latest"
      [] intent = Str("popular")             -> "popular"
      [] intent = Str("reliable")            -> "reliable"
      [] intent = Str("default")             -> "default"
      [] intent = Str(" Latest ")            -> "latest"
      [] intent = Str("most popular latest") -> "latest"
      [] intent = Str("trending quality")    -> "popular"
      [] intent = Str("quality recommend")   -> "reliable"
      [] OTHER                               -> "default"

\* C12: the trimmed, lower-cased intent is matched exactly against the
\* profile table first, and otherwise by the substring rules in the order
\* latest, popular/trend, reliab/quality, recommend-or-empty, default, so an
\* intent with several keywords takes the earliest rule; an empty, None or
\* unrecognised intent gets the weights of the recommend profile.
C12_ProfileResolution ==
    Called("score_documents") =>
        LET w == IF rank_out.raised THEN ComputeDynamicWeights(req.intent)
                 ELSE rank_out.weights
        IN /\ w = NormalizeWeights(IntentWeights(ExpectedProfile(req.intent)))
           /\ ExpectedProfile(req.intent) \in {"recommend", "default"} =>
                 /\ w = NormalizeWeights(IntentWeights("recommend"))
                 /\ w["similarity"].num * 10 = 4 * w["similarity"].den
                 /\ w["doc_quality"].num * 10 = 3 * w["doc_quality"].den
                 /\ w["recency"].num * 10 = 1 * w["recency"].den
                 /\ w["popularity"].num * 10 = 2 * w["popularity"].den

C12_Witness ==
    /\ req.intent = Str("most popular latest")
    /\ Called("score_documents")
    /\ ~rank_out.raised
    /\ WeightLess(rank_out.weights["popularity"], rank_out.weights["recency"])

\* C13: for intent "latest" the recency weight is strictly greater than each
\* of the other three weights; for "popular" the popularity weight is; for
\* "reliable" the doc_quality weight is.
C13_ProfileDominance ==
    (Called("score_documents") /\ ~rank_out.raised) =>
        LET w == rank_out.weights
            Dominates(top) == \A k \in Signals \ {top} : WeightLess(w[k], w[top])
        IN /\ req.intent = Str("latest") => Dominates("recency")
           /\ req.intent = Str("popular") => Dominates("popularity")
           /\ req.intent = Str("reliable") => Dominates("doc_quality")

C13_Witness ==
    /\ req.intent = Str("reliable")
    /\ Called("score_documents")
    /\ Len(rank_out.ranked) = 1
    /\ WeightLess(rank_out.weights["similarity"], rank_out.weights["doc_quality"])

\* The batch size and the four raw signal columns score_documents builds
\* from the caller's batch (every record a dict).
BatchSize == Max2(Len(metadata_list), Len(sim_scores))
WellFormedBatch == \A i \in DOMAIN metadata_list : metadata_list[i].k = "dict"
SignalColumns ==
    {[i \in 1..BatchSize |->
         PreNormalizeSimilarity(IF i <= Len(sim_scores) THEN sim_scores[i] ELSE ONum(0))],
     [i \in 1..BatchSize |-> RawQuality(RecordAt(metadata_list, i))],
     [i \in 1..BatchSize |-> RawPopularity(RecordAt(metadata_list, i))],
     [i \in 1..BatchSize |-> RawRecency(RecordAt(metadata_list, i))]}

CountIn(records, md) == Cardinality({i \in DOMAIN records : records[i] = md})
CountRanked(ranked, md) == Cardinality({i \in DOMAIN ranked : ranked[i].metadata = md})
CountSimilarity(ranked, x) == Cardinality({i \in DOMAIN ranked : ranked[i].similarity = x})

\* C15: a successful score_documents call returns exactly
\* max(len(records), len(scores)) entries; every input record is the metadata
\* of exactly one entry (none dropped, none duplicated); a position without
\* a record has empty metadata and a position without a score is scored as
\* similarity 0.0.
C15_NoCandidateLost ==
    (Called("score_documents") /\ ~rank_out.raised) =>
        LET ranked == rank_out.ranked
            pad == BatchSize - Len(metadata_list)
        IN /\ Len(ranked) = BatchSize
           /\ \A md \in ScorerRecords \cup {EmptyDict} :
                 CountRanked(ranked, md) =
                     CountIn(metadata_list, md) + (IF md = EmptyDict THEN pad ELSE 0)
           /\ (BatchSize > 0 /\ Len(sim_scores) = 0) =>
                 CountSimilarity(ranked, 500000) = BatchSize
           /\ (0 < Len(sim_scores) /\ Len(sim_scores) < BatchSize
                /\ \A i \in DOMAIN sim_scores : sim_scores[i] = ONum(9)) =>
                 /\ CountSimilarity(ranked, 0) = BatchSize - Len(sim_scores)
                 /\ CountSimilarity(ranked, Micro) = Len(sim_scores)

C15_Witness ==
    /\ metadata_list = <<recB>>
    /\ sim_scores = <<ONum(9), ONum(-5)>>
    /\ Called("score_documents")
    /\ Len(rank_out.ranked) = 2
    /\ CountRanked(rank_out.ranked, EmptyDict) = 1

\* The ways to arrange n batch positions.
Arrangements(n) == {p \in [1..n -> 1..n] : \A i, j \in 1..n : i # j => p[i] # p[j]}

C18_EmptyBatch ==
    (Called("score_documents") /\ metadata_list = <<>> /\ sim_scores = <<>>) =>
        /\ NormalizeRetrieverOutput(ONone) = Returned(metadata_list, sim_scores)
        /\ ~rank_out.raised
        /\ rank_out.ranked = <<>>
        /\ DOMAIN rank_out.weights = Signals
        /\ rank_out.weights = NormalizeWeights(IntentWeights(ExpectedProfile(req.intent)))

C18_Witness ==
    /\ metadata_list = <<>>
    /\ sim_scores = <<>>
    /\ req.intent = Str("latest")
    /\ Called("score_documents")
    /\ rank_out.ranked = <<>>
    /\ rank_out.weights["recency"].num = 50

\* C19: ranking is all-or-nothing: score_documents either returns a ranked
\* list that covers all N candidates of the batch, or raises one scoring
\* failure and returns nothing; it never returns the candidates processed
\* before a failure.
C19_AllOrNothing ==
    Called("score_documents") =>
        \/ /\ rank_out.raised
           /\ rank_out.exc = "score_documents failed"
           /\ rank_out.ranked = <<>>
           /\ ~WellFormedBatch
        \/ /\ ~rank_out.raised
           /\ WellFormedBatch
           /\ Len(rank_out.ranked) = BatchSize
           /\ \A md \in ScorerRecords :
                 CountRanked(rank_out.ranked, md) = CountIn(metadata_list, md)

C19_Witness ==
    /\ metadata_list = <<recA, OStr("oops")>>
    /\ sim_scores = <<ONum(9), ONum(-5)>>
    /\ Called("score_documents")
    /\ rank_out.raised
    /\ rank_out.ranked = <<>>

\* A value of the batch that float() cannot convert: a similarity score, or
\* the quality or popularity field of a record.
NotANumber(v) == v.t # "none" /\ ~ToFloat(v).ok
NonNumericBatch ==
    \/ \E i \in DOMAIN sim_scores : NotANumber(Scalar(sim_scores[i]))
    \/ \E i \in DOMAIN metadata_list :
          /\ metadata_list[i].k = "dict"
          /\ \/ NotANumber(GetFieldSafe(metadata_list[i], DocQualityCandidates))
             \/ NotANumber(GetFieldSafe(metadata_list[i], PopularityCandidates))

\* The similarities with every value that is no number replaced by 0.0.
NumericScores ==
    [i \in DOMAIN sim_scores |->
        IF NotANumber(Scalar(sim_scores[i])) THEN ONum(0) ELSE sim_scores[i]]

\* C20 as the specification states it: when the batch holds a value that
\* cannot be converted to a number, scoring fails for the whole batch and the
\* entry point returns an error envelope with code RANKER_ERROR.
C20_NonNumericIsRankerError ==
    (Called("score_documents") /\ NonNumericBatch) =>
        /\ rank_out.raised
        /\ pc = "done"
        /\ resp.status = "error"
        /\ resp.error.code = "RANKER_ERROR"

\* C20: a value that cannot be converted to a number does not fail the
\* batch: a similarity score that is no number is scored as 0.0, a
\* popularity field that is no number counts as 0.0, and scoring fails, with
\* the entry point returning RANKER_ERROR, exactly when a candidate record
\* is not a mapping.
C20_NonNumericIsDefaulted ==
    Called("score_documents") =>
        /\ rank_out.raised <=> ~WellFormedBatch
        /\ (pc = "done" /\ resp.status = "error") =>
              (resp.error.code = "RANKER_ERROR" <=> rank_out.raised)
        /\ (WellFormedBatch /\ NumericScores # sim_scores) =>
              rank_out.ranked =
                  ScoreDocuments(metadata_list, NumericScores, RankIntent).ranked
        /\ metadata_list = <<recA, recC>> =>
              \A i \in DOMAIN rank_out.ranked : rank_out.ranked[i].popularity = 500000

C20_Witness ==
    /\ metadata_list = <<recA, recB>>
    /\ sim_scores = <<OStr("n/a"), OStr("0.9")>>
    /\ pc = "done"
    /\ resp.status = "ok"
    /\ rank_out.ranked[1].similarity = Micro
    /\ rank_out.ranked[2].similarity = 0

----------------------------------------------------------------------------
(* Claims about the materialized results and the envelopes *)

\* C21: in recommend and evaluate mode, whenever ranking succeeds, the
\* entry point returns an ok envelope whose payload.results holds exactly as
\* many records as the ranked list, in the same order; a ranked record whose
\* conversion fails is replaced by the minimally-populated fallback record,
\* and neither aborts the batch nor is dropped.
C21_ResultsMirrorRanking ==
    (mode \in {"recommend", "evaluate"} /\ Called("score_documents")
        /\ ~rank_out.raised) =>
        /\ pc # "raised"
        /\ pc = "done" =>
              /\ resp.status = "ok"
              /\ Len(resp.payload.results) = Len(rank_out.ranked)
              /\ \A i \in DOMAIN rank_out.ranked :
                    /\ resp.payload.results[i].id = rank_out.ranked[i].id
                    /\ resp.payload.results[i].hybrid_score =
                          rank_out.ranked[i].hybrid_score
                    /\ resp.payload.results[i].metadata = rank_out.ranked[i].metadata
                    /\ DocResultFromDict(rank_out.ranked[i]).raised =>
                          resp.payload.results[i] = FallbackRecord(rank_out.ranked[i])

\* a batch of two whose second-ranked record has a numeric id: its
\* conversion fails and the fallback record stands in its place
C21_Witness ==
    /\ pc = "done"
    /\ mode = "evaluate"
    /\ resp.status = "ok"
    /\ Len(rank_out.ranked) = 2
    /\ Len(resp.payload.results) = 2
    /\ resp.payload.results[1].id = Str("a")
    /\ resp.payload.results[2].id = Num(7)
    /\ DocResultFromDict(rank_out.ranked[2]).raised

\* Two candidates of a batch tie on raw similarity and on raw recency.
TieOnSimilarityAndRecency ==
    /\ PreNormalizeSimilarity(IF 1 <= Len(sim_scores) THEN sim_scores[1] ELSE ONum(0))
         = PreNormalizeSimilarity(IF 2 <= Len(sim_scores) THEN sim_scores[2] ELSE ONum(0))
    /\ RawRecency(metadata_list[1]) = RawRecency(metadata_list[2])

\* C22: in a batch of two candidates that tie on raw similarity and on
\* recency, where a has the higher quality and the lower popularity and b
\* the opposite, intent "popular" ranks b above a; the batch a = (quality
\* 1.0, popularity 0.0), b = (quality 0.0, popularity 1.0) with scores
\* [0.9, 0.9] gives b 0.675 and a 0.325.
C22_PopularRanksPopularityFirst ==
    (Called("score_documents") /\ req.intent = Str("popular")
        /\ Len(metadata_list) = 2 /\ BatchSize = 2 /\ WellFormedBatch
        /\ TieOnSimilarityAndRecency) =>
        /\ \A a, b \in 1..2 :
              (/\ RawQuality(metadata_list[a]) > RawQuality(metadata_list[b])
               /\ RawPopularity(metadata_list[a]) < RawPopularity(metadata_list[b])) =>
                  /\ ~rank_out.raised
                  /\ rank_out.ranked[1].metadata = metadata_list[b]
                  /\ rank_out.ranked[2].metadata = metadata_list[a]
                  /\ rank_out.ranked[1].hybrid_score > rank_out.ranked[2].hybrid_score
        /\ (metadata_list = <<recA, recB>> /\ sim_scores = <<ONum(9), ONum(9)>>) =>
              /\ rank_out.ranked[1].id = Str("b")
              /\ rank_out.ranked[1].hybrid_score = 675000
              /\ rank_out.ranked[2].id = Str("a")
              /\ rank_out.ranked[2].hybrid_score = 325000

C22_Witness ==
    /\ Called("score_documents")
    /\ req.intent = Str("popular")
    /\ metadata_list = <<recA, recB>>
    /\ sim_scores = <<ONum(9), ONum(9)>>
    /\ Len(rank_out.ranked) = 2
    /\ rank_out.ranked[1].id = Str("b")

----------------------------------------------------------------------------
(* Two calls of the entry points in flight at once *)

\* The locals of the running call.
Frame ==
    [pc |-> pc, mode |-> mode, req |-> req, request_id |-> request_id,
     raw |-> raw, metadata_list |-> metadata_list, sim_scores |-> sim_scores,
     rank_out |-> rank_out, explain_out |-> explain_out,
     explanation |-> explanation, results |-> results, timing |-> timing,
     calls |-> calls, resp |-> resp]

\* The scheduler leaves the running call between two of its stages and
\* runs the other call: each call keeps its own locals, nothing else exists.
Switch ==
    /\ peer' = Frame
    /\ pc' = peer.pc
    /\ mode' = peer.mode
    /\ req' = peer.req
    /\ request_id' = peer.request_id
    /\ raw' = peer.raw
    /\ metadata_list' = peer.metadata_list
    /\ sim_scores' = peer.sim_scores
    /\ rank_out' = peer.rank_out
    /\ explain_out' = peer.explain_out
    /\ explanation' = peer.explanation
    /\ results' = peer.results
    /\ timing' = peer.timing
    /\ calls' = peer.calls
    /\ resp' = peer.resp

ConcRequestIds == {NoneV, Str("req-1")}
ConcUuids == {"uuid-1"}
ConcIntents == {Str("latest"), Str(" Most POPULAR ")}
ConcElapsedMs == {7}
ConcRetrieverOutcomes ==
    {ORaise("index not loaded"),
     OTuple(<<OList(<<>>), OList(<<>>)>>),
     OTuple(<<OList(<<OStr("oops")>>), OList(<<ONum(9)>>)>>),
     OTuple(<<OList(<<recA, recB>>), OList(<<ONum(9), ONum(9)>>)>>),
     OTuple(<<OList(<<recA, recC>>), OList(<<ONum(9), ONum(-5)>>)>>)}
ConcExplainOutcomes ==
    {ExplainReturned(ExplStr("ranked highest")), ExplainRaised("composer failed")}

ConcurrentNext ==
    \/ \E m \in Modes, rid \in ConcRequestIds, query \in Queries,
          intent \in ConcIntents, top_k \in TopKs, uuid \in ConcUuids :
          Receive(m, rid, query, intent, top_k, uuid)
    \/ \E out \in ConcRetrieverOutcomes, el \in ConcElapsedMs : Retrieve(out, el)
    \/ \E el \in ConcElapsedMs : Rank(el)
    \/ \E out \in ConcExplainOutcomes, el \in ConcElapsedMs : Explain(out, el)
    \/ Materialize
    \/ Respond
    \/ Return
    \/ Switch

ConcurrentSpec == Init /\ [][ConcurrentNext]_vars

\* The envelope of a call that runs alone, from its request, the outcome of
\* the retriever, the outcome of the explainer and the time a stage takes.
RunAlone(m, rid, intent, rawv, eout, el) ==
    LET norm == IF rawv.k = "raise" THEN Raised(rawv.s)
                ELSE NormalizeRetrieverOutput(rawv)
        out  == ScoreDocuments(norm.records, norm.scores,
                               IF m = "evaluate" THEN NoneV ELSE intent)
        done == IF m = "ask" THEN <<MaterializeOne(out.ranked[1])>>
                ELSE MaterializeAll(out.ranked)
    IN IF norm.raised
       THEN ErrorEnvelope(m, rid, "RETRIEVER_ERROR", norm.exc, Timing(el, 0, 0))
       ELSE IF out.raised
       THEN ErrorEnvelope(m, rid, "RANKER_ERROR", out.exc, Timing(el, el, 0))
       ELSE IF AfterRank(m, out.ranked) = "done"
       THEN NoResultsEnvelope(rid, Timing(el, el, 0))
       ELSE OkEnvelope(m, rid, [i \in DOMAIN done |-> done[i].doc], ExplanationOf(eout),
                       Timing(el, el, IF m = "ask" /\ ~eout.raised THEN el ELSE 0))

\* The envelope a call holds is the envelope of the same call run alone.
AsRunAlone(f) ==
    f.pc = "done" =>
        \E el \in ConcElapsedMs :
            f.resp = RunAlone(f.mode, f.request_id, f.req.intent, f.raw, f.explain_out, el)

\* The batch a call holds after scoring is the batch the adapter gave it,
\* and the weights it was scored with are the profile of its own intent.
BatchUntouched(f) ==
    (\E i \in DOMAIN f.calls : f.calls[i] = "score_documents") =>
        /\ f.metadata_list = NormalizeRetrieverOutput(f.raw).records
        /\ f.sim_scores = NormalizeRetrieverOutput(f.raw).scores
        /\ ~f.rank_out.raised =>
            f.rank_out.weights =
              NormalizeWeights(IntentWeights(ResolveProfile(
                  IF f.mode = "evaluate" THEN NoneV ELSE f.req.intent)))

\* C23: when two requests are processed concurrently, their stages
\* interleaved in any order, each request's envelope equals the envelope it
\* gets when run alone with the same retriever and explainer outcomes: no
\* request reads ranking state written by another, and scoring leaves the
\* weight profile table and the request's records and scores as they were.
C23_RequestsIsolated ==
    /\ AsRunAlone(Frame)
    /\ AsRunAlone(peer)
    /\ BatchUntouched(Frame)
    /\ BatchUntouched(peer)

\* a call that was ranked under its own intent and returned while another
\* call, with another intent and another batch, waits between its stages
C23_Witness ==
    /\ pc = "done"
    /\ mode = "recommend"
    /\ resp.status = "ok"
    /\ Len(resp.payload.results) = 2
    /\ peer.pc = "explain"
    /\ peer.req.intent # req.intent
    /\ peer.raw # raw
    /\ peer.rank_out.weights # rank_out.weights

----------------------------------------------------------------------------
(* Claims about the similarity pre-normalization and the scored entries *)

\* What the rule of C24 gives for each score of the batches, in 1/20ths:
\* 0.9 -> 0.9, 0.2 -> 0.2, -0.5 -> (-0.5 + 1) / 2 = 0.25, 2.5 -> 2.5 and a
\* score that is no number -> 0.0.
CosineRule(s) ==
    CASE s = ONum(9)  -> 18
      [] s = ONum(2)  -> 4
      [] s = ONum(-5) -> 5
      [] s = ONum(25) -> 50
      [] OTHER        -> 0

\* the similarity of the ranked entry made for batch position i (no records)
SimilarityOfDoc(i) ==
    LET e == CHOOSE e \in {rank_out.ranked[j] : j \in DOMAIN rank_out.ranked} :
                 e.id = Str("doc_" \o ToString(i - 1))
    IN e.similarity

\* C24: before min-max normalization a raw similarity v in [-1, 1] is kept
\* when v >= 0 and replaced by (v + 1) / 2 when v < 0, clamped to [0, 1]; a
\* value outside [-1, 1] passes through unchanged; a similarity that is no
\* number is treated as 0.0. The min-max normalized similarities of a batch
\* of two are those of the values so obtained.
C24_PreNormalization ==
    /\ \A i \in DOMAIN sim_scores :
          PreNormalizeSimilarity(sim_scores[i]) = CosineRule(sim_scores[i])
    /\ (Called("score_documents") /\ Len(metadata_list) = 0 /\ Len(sim_scores) = 2) =>
          \A i, j \in 1..2 :
              /\ CosineRule(sim_scores[i]) > CosineRule(sim_scores[j]) =>
                    SimilarityOfDoc(i) = Micro /\ SimilarityOfDoc(j) = 0
              /\ (i # j /\ CosineRule(sim_scores[i]) = CosineRule(sim_scores[j])) =>
                    SimilarityOfDoc(i) = 500000

\* -0.5 becomes 0.25 and ranks above the score that is no number, 0.0
C24_Witness ==
    /\ Called("score_documents")
    /\ metadata_list = <<>>
    /\ sim_scores = <<OStr("n/a"), ONum(-5)>>
    /\ Len(rank_out.ranked) = 2
    /\ rank_out.ranked[1].id = Str("doc_1")
    /\ rank_out.ranked[1].similarity = Micro
    /\ rank_out.ranked[2].similarity = 0

\* a record whose quality field is the text "nan", which float() parses
recN == ODict([id |-> Str("n"), doc_quality |-> Str("nan"), popularity |-> Num(10),
               last_updated |-> Str("2024-01-01")])

\* A caller holds a batch of at most one record and one score, where a
\* field or the score may be the float that is no number.
NonFiniteInit ==
    /\ pc = "scorer"
    /\ mode = "recommend"
    /\ req \in {Request(NoneV, query, intent, top_k) :
                   query \in Queries, intent \in ScorerIntents, top_k \in TopKs}
    /\ request_id = ""
    /\ raw = ONone
    /\ metadata_list \in {<<>>, <<recA>>, <<recN>>}
    /\ sim_scores \in {<<>>} \cup {<<x>> : x \in ScorerScores \cup {OStr("nan")}}
    /\ rank_out = NoRankOut
    /\ explain_out = NoExplainOut
    /\ explanation = NoExplanation
    /\ results = <<>>
    /\ timing = NoTiming
    /\ calls = <<>>
    /\ resp = NoResponse
    /\ peer = IdleFrame

NonFiniteSpec == NonFiniteInit /\ [][ScorerNext]_vars

\* The weighted sum of the four signal fields of an entry, times the common
\* denominator of the weights.
WeightedSum(w, e) ==
    w["similarity"].num * e.similarity + w["doc_quality"].num * e.doc_quality
    + w["recency"].num * e.recency + w["popularity"].num * e.popularity

\* C25: every entry of every ranked list has its four signal fields in
\* [0, 1] and a hybrid_score in [0, 1] that equals the weighted sum of those
\* four normalized signals under the resolved weights (to the sixth decimal
\* the fields are rounded to), whatever the raw values of the batch, raw
\* similarities outside [-1, 1] included.
C25_HybridIsWeightedSum ==
    (Called("score_documents") /\ ~rank_out.raised) =>
        \A i \in DOMAIN rank_out.ranked :
            LET e == rank_out.ranked[i]
                w == rank_out.weights
            IN /\ \A x \in {e.similarity, e.doc_quality, e.recency, e.popularity,
                             e.hybrid_score} : 0 <= x /\ x <= Micro
               /\ Abs(e.hybrid_score * w["similarity"].den - WeightedSum(w, e))
                     <= w["similarity"].den

\* C28: a batch of exactly one candidate yields one ranked entry whose four
\* normalized signals are all 0.5 and whose hybrid_score is 0.5, for every
\* intent and whatever the raw values of the candidate.
C28_SingleCandidateIsHalf ==
    (Called("score_documents") /\ BatchSize = 1 /\ ~rank_out.raised) =>
        /\ Len(rank_out.ranked) = 1
        /\ \A x \in {rank_out.ranked[1].similarity, rank_out.ranked[1].doc_quality,
                      rank_out.ranked[1].recency, rank_out.ranked[1].popularity,
                      rank_out.ranked[1].hybrid_score} : x = 500000

----------------------------------------------------------------------------
(* Claims about the envelopes *)

\* The running call is an ask and the other call a recommend, both returned,
\* for the same retriever output and the same intent.
AskBesideRecommend ==
    /\ pc = "done" /\ mode = "ask"
    /\ peer.pc = "done" /\ peer.mode = "recommend"
    /\ raw = peer.raw
    /\ req.intent = peer.req.intent

\* C26: the explanation stage has no effect on the ranking: for the same
\* retriever output and intent, payload.source.document of ask equals the
\* first record of payload.results of recommend, whether explain_top_result
\* returns or raises (and ask has no source exactly when recommend has no
\* results).
C26_ExplanationLeavesRanking ==
    (AskBesideRecommend /\ resp.status = "ok") =>
        /\ peer.resp.status = "ok"
        /\ resp.payload.source.none <=> peer.resp.payload.results = <<>>
        /\ ~resp.payload.source.none =>
              resp.payload.source.document = peer.resp.payload.results[1]

\* the explainer raised in the ask; the recommend ranked two records
C26_Witness ==
    /\ AskBesideRecommend
    /\ resp.status = "ok"
    /\ explain_out.raised
    /\ Len(peer.resp.payload.results) = 2
    /\ resp.payload.source.document = peer.resp.payload.results[1]
    /\ resp.payload.source.document # peer.resp.payload.results[2]

\* C27: every envelope is internally consistent: status is "ok" exactly when
\* error is None; status is "error" exactly when error is a mapping whose
\* code is RETRIEVER_ERROR or RANKER_ERROR; an error envelope carries no
\* ranked results (recommend: results = [], ask: source = None, evaluate: no
\* payload); a failure of the explainer never produces an error code.
C27_EnvelopeConsistent ==
    ~resp.none =>
        /\ resp.status = "ok" <=> resp.error.none
        /\ resp.status = "error" <=>
              (~resp.error.none /\ resp.error.code \in {"RETRIEVER_ERROR", "RANKER_ERROR"})
        /\ resp.status = "error" =>
              CASE mode = "recommend" -> ~resp.payload.none /\ resp.payload.results = <<>>
                [] mode = "ask"       -> ~resp.payload.none /\ resp.payload.source.none
                [] OTHER              -> resp.payload.none
        /\ explain_out.raised => (resp.status = "ok" /\ resp.error.none)

\* an ask whose scorer failed: the error envelope has no source
C27_Witness ==
    /\ pc = "done"
    /\ mode = "ask"
    /\ resp.status = "error"
    /\ resp.error.code = "RANKER_ERROR"
    /\ resp.payload.source.none
    /\ rank_out.raised

----------------------------------------------------------------------------
(* Claims about the order of similarities and the size of the results *)

\* The score at batch position i is a number of the cosine range [-1, 1].
InCosineRange(i) ==
    /\ ToFloat(Scalar(sim_scores[i])).ok
    /\ ToFloat(Scalar(sim_scores[i])).n # NaN
    /\ -Unit <= ToFloat(Scalar(sim_scores[i])).n
    /\ ToFloat(Scalar(sim_scores[i])).n <= Unit

\* C29: similarity normalization preserves order on cosine-range inputs: of
\* two candidates whose raw similarities are both in [-1, 1], the one with
\* the strictly greater raw similarity never receives a strictly smaller
\* normalized similarity.
C29_SimilarityOrderPreserved ==
    (Called("score_documents") /\ Len(metadata_list) = 0 /\ ~rank_out.raised) =>
        \A i, j \in DOMAIN sim_scores :
            (/\ InCosineRange(i) /\ InCosineRange(j)
             /\ ToFloat(Scalar(sim_scores[i])).n > ToFloat(Scalar(sim_scores[j])).n) =>
                SimilarityOfDoc(i) >= SimilarityOfDoc(j)

\* C30: the number of records in payload.results of recommend and evaluate
\* never exceeds the top_k of the request, however many candidates the
\* retriever returns.
C30_ResultsWithinTopK ==
    (pc = "done" /\ mode \in {"recommend", "evaluate"} /\ resp.status = "ok") =>
        Len(resp.payload.results) <= req.top_k

============================================================================
